---- MODULE Spec2Model ----
(***************************************************************************)
(* Model of the judge engine of cc-mirror: worker dispatch (workers.ts),   *)
(* verdict parsing (workers.ts) and consensus (consensus.ts), driven by    *)
(* runJudgeCommand (judge.ts).                                             *)
(*                                                                         *)
(* A text (standard output, standard error, a diagnostic) is a sequence of *)
(* tokens.  Time is abstracted: an armed timer may fire at any moment.     *)
(***************************************************************************)
EXTENDS Integers, Sequences, FiniteSets, TLC

(* ------------------------------ bounds --------------------------------- *)

\* number of worker configs handed to runWorkers
NumWorkers == 2

\* number of 'data' events one child delivers on its standard output
MaxWrites == 1

\* length of the verdict lists handed to calculateConsensus on its own
MaxVerdicts == 4

\* length of those of the lists whose confidences vary
MaxConfidences == 3

\* length of the arbitrary token sequences handed to runWorker on its own
MaxText == 4

\* number of messages of the sessions handed to extractContext on its own
MaxSessionMessages == 3

\* number of lines of the session files handed to parseSession on its own
MaxLines == 3

\* number of characters of the contexts handed to runWorker's substitution
MaxContext == 3

\* number of files of the sessions directory, and their latest modification time
MaxFiles == 3
MaxMtime == 2

\* largest maxMessages and largest maxChars handed to extractContext
MaxMessagesOpt == 4
MaxCharsOpt == 12

Workers == 1..NumWorkers

(* ------------------------------ JS values ------------------------------ *)

JsNull == "#null"
JsUndefined == "#undefined"

\* x ?? y
Coalesce(x, y) == IF x = JsNull \/ x = JsUndefined THEN y ELSE x

\* an optional string (error?: string); text is a sequence of tokens
NoText == [def |-> FALSE, text |-> <<>>]
Text(t) == [def |-> TRUE, text |-> t]

\* x ?? y on optional texts
CoalesceText(x, y) == IF x.def THEN x ELSE y

(* ------------------------------ types.ts ------------------------------- *)

Verdict == {"approve", "reject", "concern", "neutral"}

(* ------------------------- tokens of a text ---------------------------- *)

LB == "{"
RB == "}"
PROSE == "prose"
\* the quoted word "verdict" outside a key position
VWORD == "'verdict'"

\* "verdict": <value> members and the value JSON.parse gives them
VerdictToks == {"v:approve", "v:reject", "v:concern", "v:neutral", "v:maybe", "v:null"}
VerdictOfTok ==
  "v:approve" :> "approve" @@ "v:reject" :> "reject" @@ "v:concern" :> "concern" @@
  "v:neutral" :> "neutral" @@ "v:maybe" :> "maybe" @@ "v:null" :> JsNull

\* "confidence": <value> members; "c:str" carries a string value
ConfToks == {"c:90", "c:150", "c:str"}
ConfNumToks == {"c:90", "c:150"}
ConfOfTok == "c:90" :> 90 @@ "c:150" :> 150

\* "summary": <value> members
SummaryToks == {"s:ok", "s:null"}
SummaryOfTok == "s:ok" :> <<"ok">> @@ "s:null" :> <<>>

\* "concerns": <value> members: a list, a string, a list whose string holds a '}'
ConcernToks == {"k:list", "k:str", "k:brace"}
ConcernsOfTok == "k:list" :> <<"c1", "c2">> @@ "k:str" :> <<>> @@ "k:brace" :> <<"c}">>

\* "recommendations": <value> members: a list, a string
RecToks == {"r:list", "r:str"}
RecsOfTok == "r:list" :> <<"r1">> @@ "r:str" :> <<>>

\* a key whose value is the object that follows it
NKEY == "n:"

MemberToks == VerdictToks \cup ConfToks \cup SummaryToks \cup ConcernToks \cup RecToks

\* the token contains the characters "verdict" in double quotes
HasVerdictWord(tok) == tok \in VerdictToks \/ tok = VWORD

\* the token contains the character '}'
HasCloseBrace(tok) == tok = RB \/ tok = "k:brace"

(* --------------------- workers.ts: parseWorkerOutput ------------------- *)

NoParse == [ok |-> FALSE, verdict |-> JsUndefined, confidence |-> 0,
            summary |-> <<>>, concerns |-> <<>>, recommendations |-> <<>>]

\* least element of a non-empty set of naturals
Least(S) == CHOOSE x \in S : \A y \in S : x <= y
Greatest(S) == CHOOSE x \in S : \A y \in S : x >= y

\* output.match(/\{[\s\S]*?"verdict"[\s\S]*?\}/): the bounds <<i, k>> of the
\* leftmost lazy match, or <<0, 0>> when there is none; the match ends with
\* the first '}' after the first "verdict", inside whatever token that is
JsonMatch(output) ==
  LET n == Len(output)
      opens == {i \in 1..n : output[i] = LB}
      Words(i) == {j \in (i+1)..n : HasVerdictWord(output[j])}
      Closes(j) == {k \in (j+1)..n : HasCloseBrace(output[k])}
      starts == {i \in opens : \E j \in Words(i) : Closes(j) # {}}
  IN IF starts = {} THEN <<0, 0>>
     ELSE LET i == Least(starts)
              j == Least(Words(i))
          IN <<i, Least(Closes(j))>>

\* the JSON grammar: an object is LB, members, RB; a member is a member token
\* or NKEY followed by an object.  ObjEnd(t, i) is the index of the RB that
\* closes the object opening at t[i], or 0
RECURSIVE ObjEnd(_, _), MembersEnd(_, _)
ObjEnd(t, i) ==
  IF i > Len(t) THEN 0
  ELSE IF t[i] # LB THEN 0
  ELSE MembersEnd(t, i + 1)
MembersEnd(t, i) ==
  IF i > Len(t) THEN 0
  ELSE IF t[i] = RB THEN i
  ELSE IF t[i] \in MemberToks THEN MembersEnd(t, i + 1)
  ELSE IF t[i] = NKEY
       THEN (LET e == ObjEnd(t, i + 1) IN IF e = 0 THEN 0 ELSE MembersEnd(t, e + 1))
  ELSE 0

\* JSON.parse(jsonMatch[0]) does not throw: the match is one whole object
JsonParses(matched) ==
  /\ matched[Len(matched)] = RB
  /\ ObjEnd(matched, 1) = Len(matched)

\* the members of the parsed object itself, not of an object nested in it
TopLevel(matched) ==
  {x \in 2..(Len(matched) - 1) :
     /\ matched[x] \in MemberToks
     /\ Cardinality({y \in 1..(x - 1) : matched[y] = LB})
          - Cardinality({y \in 1..(x - 1) : matched[y] = RB}) = 1}

\* the last member of the object with a key in toks, or 0
LastMember(matched, toks) ==
  LET at == {x \in TopLevel(matched) : matched[x] \in toks}
  IN IF at = {} THEN 0 ELSE Greatest(at)

\* parsed.verdict: the last "verdict" member wins
ParsedVerdict(matched) ==
  LET x == LastMember(matched, VerdictToks)
  IN IF x = 0 THEN JsUndefined ELSE VerdictOfTok[matched[x]]

\* variant: parsed.confidence ?? 0, the default runWorker applies afterwards
ParsedConfidenceOrZero(matched) ==
  LET x == LastMember(matched, ConfToks)
  IN IF x = 0 THEN 0
     ELSE IF matched[x] \in ConfNumToks THEN ConfOfTok[matched[x]]
     ELSE 0

\* typeof parsed.confidence === 'number' ? parsed.confidence : 50
ParsedConfidence(matched) ==
  LET x == LastMember(matched, ConfToks)
  IN IF x = 0 THEN 50
     ELSE IF matched[x] \in ConfNumToks THEN ConfOfTok[matched[x]]
     ELSE 50

\* parsed.summary ?? ''
ParsedSummary(matched) ==
  LET x == LastMember(matched, SummaryToks)
  IN IF x = 0 THEN <<>> ELSE SummaryOfTok[matched[x]]

\* Array.isArray(parsed.concerns) ? parsed.concerns : []
ParsedConcerns(matched) ==
  LET x == LastMember(matched, ConcernToks)
  IN IF x = 0 THEN <<>> ELSE ConcernsOfTok[matched[x]]

\* Array.isArray(parsed.recommendations) ? parsed.recommendations : []
ParsedRecommendations(matched) ==
  LET x == LastMember(matched, RecToks)
  IN IF x = 0 THEN <<>> ELSE RecsOfTok[matched[x]]

parseWorkerOutput(output) ==
  LET m == JsonMatch(output)
      matched == SubSeq(output, m[1], m[2])
  IN IF m = <<0, 0>> THEN NoParse
     ELSE IF ~JsonParses(matched) THEN NoParse
     ELSE [ok |-> TRUE, verdict |-> ParsedVerdict(matched),
           confidence |-> ParsedConfidence(matched),
           summary |-> ParsedSummary(matched),
           concerns |-> ParsedConcerns(matched),
           recommendations |-> ParsedRecommendations(matched)]

(* ------------------------ workers.ts: runWorker ------------------------ *)

NoVerdictSummary == <<"Worker did not provide a verdict">>

\* variant: the stand-in verdict takes the parser's default confidence
WorkerVerdictDefault50(w, result) ==
  LET parsed == parseWorkerOutput(result.output)
  IN [worker |-> w,
      verdict |-> IF parsed.ok THEN Coalesce(parsed.verdict, "neutral") ELSE "neutral",
      confidence |-> IF parsed.ok THEN parsed.confidence ELSE 50,
      summary |-> IF parsed.ok THEN parsed.summary
                  ELSE CoalesceText(result.error, Text(NoVerdictSummary)).text,
      concerns |-> IF parsed.ok THEN parsed.concerns ELSE <<>>,
      recommendations |-> IF parsed.ok THEN parsed.recommendations ELSE <<>>,
      rawOutput |-> result.output]

\* the WorkerVerdict runWorker builds from a settled spawnWorker result
WorkerVerdictOf(w, result) ==
  LET parsed == parseWorkerOutput(result.output)
  IN [worker |-> w,
      verdict |-> IF parsed.ok THEN Coalesce(parsed.verdict, "neutral") ELSE "neutral",
      confidence |-> IF parsed.ok THEN parsed.confidence ELSE 0,
      summary |-> IF parsed.ok THEN parsed.summary
                  ELSE CoalesceText(result.error, Text(NoVerdictSummary)).text,
      concerns |-> IF parsed.ok THEN parsed.concerns ELSE <<>>,
      recommendations |-> IF parsed.ok THEN parsed.recommendations ELSE <<>>,
      rawOutput |-> result.output]

(* -------------------- consensus.ts: calculateConsensus ----------------- *)

\* a JS number: <<n>>, or <<>> for NaN
NaN == <<>>
Num(n) == <<n>>
IsNaN(x) == x = <<>>

\* names every object inherits from Object.prototype (among others): for
\* these `name in counts` holds although counts has no such tally
ObjectPrototypeKeys ==
  {"constructor", "toString", "toLocaleString", "valueOf", "hasOwnProperty",
   "isPrototypeOf", "propertyIsEnumerable"}

\* the tally loop: if (v.verdict in counts) counts[v.verdict]++.  On an
\* inherited name the increment reads a function and stores NaN under that
\* name in counts itself
RECURSIVE CountVerdicts(_, _)
CountVerdicts(verdicts, counts) ==
  IF verdicts = <<>> THEN counts
  ELSE LET v == Head(verdicts)
       IN CountVerdicts(Tail(verdicts),
            IF v.verdict \in Verdict
            THEN [counts EXCEPT ![v.verdict] = @ + 1]
            ELSE IF v.verdict \in DOMAIN counts THEN counts
            ELSE IF v.verdict \in ObjectPrototypeKeys
                 THEN counts @@ (v.verdict :> NaN)
            ELSE counts)

ZeroCounts == [k \in Verdict |-> 0]

\* variant: a reject wins only when it strictly outnumbers the approvals
FinalVerdictStrictReject(counts) ==
  IF counts["reject"] > 0 /\ counts["reject"] > counts["approve"] THEN "reject"
  ELSE IF counts["approve"] > counts["concern"] + counts["reject"] THEN "approve"
  ELSE IF counts["concern"] > 0 \/ counts["reject"] > 0 THEN "concern"
  ELSE "mixed"

\* the if / else-if chain that picks the final verdict
FinalVerdictOf(counts) ==
  IF counts["reject"] > 0 /\ counts["reject"] >= counts["approve"] THEN "reject"
  ELSE IF counts["approve"] > counts["concern"] + counts["reject"] THEN "approve"
  ELSE IF counts["concern"] > 0 \/ counts["reject"] > 0 THEN "concern"
  ELSE "mixed"

\* Math.round(a / b) for b > 0: halves round towards plus infinity
RoundDiv(a, b) == (2 * a + b) \div (2 * b)

\* Math.max(...Object.values(counts)): NaN as soon as one value is NaN
MaxCount(counts) ==
  IF DOMAIN counts \subseteq Verdict
  THEN Num(Greatest({counts[k] : k \in DOMAIN counts}))
  ELSE NaN

\* the percentage without the division by verdicts.length
AgreementUnscaled(counts, n) ==
  LET maxCount == MaxCount(counts)
  IN IF IsNaN(maxCount) THEN NaN ELSE Num(100 * maxCount[1])

\* Math.round((maxCount / verdicts.length) * 100)
AgreementOf(counts, n) ==
  LET maxCount == MaxCount(counts)
  IN IF IsNaN(maxCount) THEN NaN ELSE Num(RoundDiv(100 * maxCount[1], n))

RECURSIVE SumConfidence(_)
SumConfidence(verdicts) ==
  IF verdicts = <<>> THEN 0
  ELSE Head(verdicts).confidence + SumConfidence(Tail(verdicts))

\* the mean confidence alone, not weighted by the agreement
ConfidenceUnscaled(verdicts, agreement) ==
  IF IsNaN(agreement) THEN NaN
  ELSE Num(RoundDiv(SumConfidence(verdicts), Len(verdicts)))

\* Math.round(avgConfidence * (agreement / 100))
ConfidenceOf(verdicts, agreement) ==
  IF IsNaN(agreement) THEN NaN
  ELSE Num(RoundDiv(SumConfidence(verdicts) * agreement[1], 100 * Len(verdicts)))

\* verdicts.flatMap(f)
RECURSIVE FlatMap(_, _)
FlatMap(verdicts, field) ==
  IF verdicts = <<>> THEN <<>>
  ELSE Head(verdicts)[field] \o FlatMap(Tail(verdicts), field)

\* [...new Set(list)]: first appearance kept
RECURSIVE Dedupe(_, _)
Dedupe(list, seen) ==
  IF list = <<>> THEN <<>>
  ELSE IF Head(list) \in seen THEN Dedupe(Tail(list), seen)
  ELSE <<Head(list)>> \o Dedupe(Tail(list), seen \cup {Head(list)})

\* the concatenation as it is, repetitions kept
Concatenated(list) == list

\* [...new Set(list)]: the distinct elements in insertion order
Unique(list) == Dedupe(list, {})

\* every worker whose verdict is not the final one, a concern included
IsDissentingStrict(finalVerdict, v) ==
  finalVerdict # "mixed" /\ v.verdict # finalVerdict

\* the callback of verdicts.filter
IsDissenting(finalVerdict, v) ==
  IF finalVerdict = "approve" THEN v.verdict # "approve"
  ELSE IF finalVerdict = "reject" THEN v.verdict # "reject"
  ELSE IF finalVerdict = "concern" THEN v.verdict # "concern" /\ v.verdict # "reject"
  ELSE FALSE

\* verdicts.filter(IsDissenting)
RECURSIVE Dissenting(_, _)
Dissenting(verdicts, finalVerdict) ==
  IF verdicts = <<>> THEN <<>>
  ELSE (IF IsDissenting(finalVerdict, Head(verdicts)) THEN <<Head(verdicts)>> ELSE <<>>)
       \o Dissenting(Tail(verdicts), finalVerdict)

\* the summary without the single-worker sentence
SummaryOfSeveral(n, agreement, finalVerdict, nConcerns) ==
  [kind |-> IF agreement = Num(100) THEN "unanimous" ELSE "partial",
   workers |-> n, agreement |-> agreement, verdict |-> finalVerdict,
   concerns |-> nConcerns]

\* the summary sentence, kept as the parts the templates are filled with
SummaryOf(n, agreement, finalVerdict, nConcerns) ==
  [kind |-> IF n = 1 THEN "single"
            ELSE IF agreement = Num(100) THEN "unanimous" ELSE "partial",
   workers |-> n, agreement |-> agreement, verdict |-> finalVerdict,
   concerns |-> nConcerns]

\* the early return with the percentages of a unanimous vote
EmptyConsensusUnanimous ==
  [finalVerdict |-> "mixed", confidence |-> Num(0), agreement |-> Num(100),
   summary |-> [kind |-> "none", workers |-> 0, agreement |-> Num(100),
                verdict |-> "mixed", concerns |-> 0],
   allConcerns |-> <<>>, allRecommendations |-> <<>>, dissenting |-> <<>>]

\* the early return on verdicts.length === 0
EmptyConsensus ==
  [finalVerdict |-> "mixed", confidence |-> Num(0), agreement |-> Num(0),
   summary |-> [kind |-> "none", workers |-> 0, agreement |-> Num(0),
                verdict |-> "mixed", concerns |-> 0],
   allConcerns |-> <<>>, allRecommendations |-> <<>>, dissenting |-> <<>>]

calculateConsensus(verdicts) ==
  IF Len(verdicts) = 0 THEN EmptyConsensus
  ELSE LET counts == CountVerdicts(verdicts, ZeroCounts)
           finalVerdict == FinalVerdictOf(counts)
           agreement == AgreementOf(counts, Len(verdicts))
           confidence == ConfidenceOf(verdicts, agreement)
           allConcerns == Unique(FlatMap(verdicts, "concerns"))
           allRecommendations == Unique(FlatMap(verdicts, "recommendations"))
       IN [finalVerdict |-> finalVerdict, confidence |-> confidence,
           agreement |-> agreement,
           summary |-> SummaryOf(Len(verdicts), agreement, finalVerdict, Len(allConcerns)),
           allConcerns |-> allConcerns, allRecommendations |-> allRecommendations,
           dissenting |-> Dissenting(verdicts, finalVerdict)]

(* ------------------------------- state --------------------------------- *)

VARIABLES
  parallel,   \* runWorkers option: Promise.all or the for-await loop
  pc,         \* runJudgeCommand: "start", "running", "joined", "done"
  cur,        \* sequential loop: index of the config being awaited
  binHas,     \* binHas[w]: fs.existsSync(wrapperPath) for worker w
  proc,       \* child process of w: "none", "running", "dying", "exited",
              \*   "spawnfail", "errored", "closed"
  exitCode,   \* code the 'close' event carries
  stdout,     \* spawnWorker closure: captured standard output
  stderr,     \* spawnWorker closure: captured standard error
  writes,     \* number of stdout 'data' events delivered so far
  timedOut,   \* spawnWorker closure: the timedOut flag
  timer,      \* "unset", "armed", "fired", "cleared"
  sigterm,    \* sigterm[w]: the workers whose timer callback signalled process w
  result,     \* <<>> or <<WorkerResult>>: what spawnWorker's promise resolved with
  settledBy,  \* "none", "notfound", "close", "error"
  verdictOf,  \* <<>> or <<WorkerVerdict>>: what runWorker returned
  parsedOf,   \* <<>> or <<parsed>>: runWorker's local `parsed` (ok = FALSE: null)
  results,    \* the verdict list runWorkers builds and returns
  consensus   \* <<>> or <<ConsensusResult>>

VARIABLES
  dir,            \* the project's sessions directory as the file system has it
  sessionArg,     \* opts.session of runJudgeCommand: <<>> or <<id text>>
  sessions,       \* <<>> or <<SessionInfo[]>>: what listSessions returned
  found,          \* <<>> or <<SessionInfo or NotFound>>: the session selected
  lines,          \* the lines of the session file parseSession reads
  session,        \* <<>> or <<ParsedSession>>: what parseSession returned
  opts,           \* the options of extractContext
  context,        \* <<>> or <<text>>: what extractContext returned
  promptTemplate, \* config.promptTemplate of the worker
  prompt          \* <<>> or <<text>>: runWorker's local `prompt`

sessionVars == <<dir, sessionArg, sessions, found, lines, session, opts, context,
                 promptTemplate, prompt>>

vars == <<parallel, pc, cur, binHas, proc, exitCode, stdout, stderr, writes,
          timedOut, timer, sigterm, result, settledBy, verdictOf, parsedOf, results,
          consensus, sessionVars>>

childVars == <<proc, exitCode, stdout, stderr, writes, timedOut, timer, sigterm,
               result, settledBy>>

\* chunks a child may write to its standard output / standard error
OutChunks == { <<PROSE, LB, "v:approve", "c:90", RB>>,
               <<LB, "v:maybe", "c:150", RB>> }
ErrChunk == <<"boom">>

TimeoutMarker == <<"Worker timed out">>
NotFoundError == <<"Variant not found">>
SpawnErrorMessage == <<"spawn error">>
ExitCodeText(code) == <<"Exit code", code>>

\* the session side of the command when a specification leaves it out
SessionIdle ==
  /\ dir = [exists |-> FALSE, readable |-> TRUE, files |-> <<>>]
  /\ sessionArg = <<>>
  /\ sessions = <<>>
  /\ found = <<>>
  /\ lines = <<>>
  /\ session = <<>>
  /\ opts = [maxMessages |-> <<>>, maxChars |-> <<>>]
  /\ context = <<>>
  /\ promptTemplate = <<>>
  /\ prompt = <<>>

Idle ==
  /\ proc = [w \in Workers |-> "none"]
  /\ exitCode = [w \in Workers |-> "-"]
  /\ stdout = [w \in Workers |-> <<>>]
  /\ stderr = [w \in Workers |-> <<>>]
  /\ writes = [w \in Workers |-> 0]
  /\ timedOut = [w \in Workers |-> FALSE]
  /\ timer = [w \in Workers |-> "unset"]
  /\ sigterm = [w \in Workers |-> {}]
  /\ result = [w \in Workers |-> <<>>]
  /\ settledBy = [w \in Workers |-> "none"]
  /\ verdictOf = [w \in Workers |-> <<>>]
  /\ parsedOf = [w \in Workers |-> <<>>]

Init ==
  /\ parallel \in BOOLEAN
  /\ pc = "start"
  /\ cur = 0
  /\ binHas \in [Workers -> BOOLEAN]
  /\ Idle
  /\ SessionIdle
  /\ results = <<>>
  /\ consensus = <<>>

(* ----------------------- workers.ts: spawnWorker ----------------------- *)

\* variant: the spawn is not guarded
WrapperExistsUnchecked(w) == TRUE

\* the existence test that guards the spawn
WrapperExists(w) == binHas[w]

\* the early return of spawnWorker
NotFoundResult == [success |-> FALSE, output |-> <<>>, error |-> Text(NotFoundError)]

\* runWorker called for the workers in W, up to its await: the synchronous
\* part of spawnWorker, and the return of runWorker where spawnWorker
\* returned at once; launch[w] says
\* whether the operating system could start the process
SpawnWorkers(W, launch) ==
  /\ proc' = [w \in Workers |->
       IF w \in W /\ WrapperExists(w) THEN launch[w] ELSE proc[w]]
  /\ timer' = [w \in Workers |->
       IF w \in W /\ WrapperExists(w) THEN "armed" ELSE timer[w]]
  /\ result' = [w \in Workers |->
       IF w \in W /\ ~WrapperExists(w)
       THEN <<NotFoundResult>>
       ELSE result[w]]
  /\ settledBy' = [w \in Workers |->
       IF w \in W /\ ~WrapperExists(w) THEN "notfound" ELSE settledBy[w]]
  /\ verdictOf' = [w \in Workers |->
       IF w \in W /\ ~WrapperExists(w)
       THEN <<WorkerVerdictOf(w, NotFoundResult)>>
       ELSE verdictOf[w]]
  /\ parsedOf' = [w \in Workers |->
       IF w \in W /\ ~WrapperExists(w)
       THEN <<parseWorkerOutput(NotFoundResult.output)>>
       ELSE parsedOf[w]]
  /\ UNCHANGED sessionVars
  /\ UNCHANGED <<exitCode, stdout, stderr, writes, timedOut, sigterm>>

Launches == [Workers -> {"running", "spawnfail"}]

\* child.stdout.on('data')
ChildWrite(w, chunk) ==
  /\ proc[w] = "running"
  /\ writes[w] < MaxWrites
  /\ stdout' = [stdout EXCEPT ![w] = @ \o chunk]
  /\ writes' = [writes EXCEPT ![w] = @ + 1]
  /\ UNCHANGED sessionVars
  /\ UNCHANGED <<parallel, pc, cur, binHas, proc, exitCode, stderr, timedOut, timer,
                 sigterm, result, settledBy, verdictOf, parsedOf, results, consensus>>

\* child.stderr.on('data')
ChildWriteErr(w) ==
  /\ proc[w] = "running"
  /\ Len(stderr[w]) < MaxWrites
  /\ stderr' = [stderr EXCEPT ![w] = @ \o ErrChunk]
  /\ UNCHANGED sessionVars
  /\ UNCHANGED <<parallel, pc, cur, binHas, proc, exitCode, stdout, writes, timedOut,
                 timer, sigterm, result, settledBy, verdictOf, parsedOf, results, consensus>>

\* the child ends on its own, with status 0 or 1
ChildExit(w, code) ==
  /\ proc[w] = "running"
  /\ proc' = [proc EXCEPT ![w] = "exited"]
  /\ exitCode' = [exitCode EXCEPT ![w] = code]
  /\ UNCHANGED sessionVars
  /\ UNCHANGED <<parallel, pc, cur, binHas, stdout, stderr, writes, timedOut, timer,
                 sigterm, result, settledBy, verdictOf, parsedOf, results, consensus>>

\* the child is ended by the SIGTERM it did not handle: 'close' carries code null
ChildDie(w) ==
  /\ proc[w] = "dying"
  /\ proc' = [proc EXCEPT ![w] = "exited"]
  /\ exitCode' = [exitCode EXCEPT ![w] = "null"]
  /\ UNCHANGED sessionVars
  /\ UNCHANGED <<parallel, pc, cur, binHas, stdout, stderr, writes, timedOut, timer,
                 sigterm, result, settledBy, verdictOf, parsedOf, results, consensus>>

\* variant: the callback signals every running child
KillTargetsAll(w) == {x \in Workers : proc[x] = "running"}

\* the processes child.kill('SIGTERM') of worker w's timer callback signals
KillTargets(w) == IF proc[w] = "running" THEN {w} ELSE {}

\* the setTimeout callback: timedOut = true; child.kill('SIGTERM').
\* A signalled process either dies of it ("dying") or handles it and runs on.
TimerFire(w, effect) ==
  /\ timer[w] = "armed"
  /\ proc[w] # "spawnfail"
  /\ timer' = [timer EXCEPT ![w] = "fired"]
  /\ timedOut' = [timedOut EXCEPT ![w] = TRUE]
  /\ sigterm' = [x \in Workers |->
       IF x \in KillTargets(w) THEN sigterm[x] \cup {w} ELSE sigterm[x]]
  /\ proc' = [x \in Workers |-> IF x \in KillTargets(w) THEN effect ELSE proc[x]]
  /\ UNCHANGED sessionVars
  /\ UNCHANGED <<parallel, pc, cur, binHas, exitCode, stdout, stderr, writes,
                 result, settledBy, verdictOf, parsedOf, results, consensus>>

\* variant: the handlers leave the timer armed
ClearTimeoutMissing(w) == timer[w]

\* clearTimeout(timer)
ClearTimeout(w) == IF timer[w] = "armed" THEN "cleared" ELSE timer[w]

\* variant: the timedOut flag is not consulted
CloseSuccessIgnoringTimeout(w) == exitCode[w] = "0"

\* success: code === 0 && !timedOut
CloseSuccess(w) == exitCode[w] = "0" /\ ~timedOut[w]

\* variant: standard error is preferred to the timeout marker
CloseErrorStderrFirst(w) ==
  IF stderr[w] # <<>> /\ (timedOut[w] \/ exitCode[w] # "0") THEN Text(stderr[w])
  ELSE IF timedOut[w] THEN Text(TimeoutMarker)
  ELSE IF exitCode[w] # "0" THEN Text(ExitCodeText(exitCode[w]))
  ELSE NoText

\* error: timedOut ? 'Worker timed out' : code !== 0 ? stderr || `Exit code ${code}` : undefined
CloseError(w) ==
  IF timedOut[w] THEN Text(TimeoutMarker)
  ELSE IF exitCode[w] # "0"
       THEN (IF stderr[w] # <<>> THEN Text(stderr[w]) ELSE Text(ExitCodeText(exitCode[w])))
       ELSE NoText

\* resolve(value): only the first call settles the promise; runWorker, which
\* awaits it, then resumes and returns its verdict
Resolve(w, value, by) ==
  /\ result' = [result EXCEPT ![w] = IF @ = <<>> THEN <<value>> ELSE @]
  /\ settledBy' = [settledBy EXCEPT ![w] = IF result[w] = <<>> THEN by ELSE @]
  /\ verdictOf' = [verdictOf EXCEPT ![w] =
       IF result[w] = <<>> THEN <<WorkerVerdictOf(w, value)>> ELSE @]
  /\ parsedOf' = [parsedOf EXCEPT ![w] =
       IF result[w] = <<>> THEN <<parseWorkerOutput(value.output)>> ELSE @]

\* child.on('close')
CloseEvent(w) ==
  /\ proc[w] \in {"exited", "errored"}
  /\ proc' = [proc EXCEPT ![w] = "closed"]
  /\ timer' = [timer EXCEPT ![w] = ClearTimeout(w)]
  /\ Resolve(w, [success |-> CloseSuccess(w), output |-> stdout[w],
                 error |-> CloseError(w)], "close")
  /\ UNCHANGED sessionVars
  /\ UNCHANGED <<parallel, pc, cur, binHas, exitCode, stdout, stderr, writes,
                 timedOut, sigterm, results, consensus>>

\* child.on('error'): the process could not be launched
ErrorEvent(w) ==
  /\ proc[w] = "spawnfail"
  /\ proc' = [proc EXCEPT ![w] = "errored"]
  /\ exitCode' = [exitCode EXCEPT ![w] = "errno"]
  /\ timer' = [timer EXCEPT ![w] = ClearTimeout(w)]
  /\ Resolve(w, [success |-> FALSE, output |-> stdout[w],
                 error |-> Text(SpawnErrorMessage)], "error")
  /\ UNCHANGED sessionVars
  /\ UNCHANGED <<parallel, pc, cur, binHas, stdout, stderr, writes,
                 timedOut, sigterm, results, consensus>>

(* ------------------- workers.ts: runWorker / runWorkers ---------------- *)

\* Promise.all(configs.map(...)): every config is dispatched in the same turn
RunWorkersParallel ==
  /\ pc = "start"
  /\ parallel
  /\ \E launch \in Launches : SpawnWorkers(Workers, launch)
  /\ pc' = "running"
  /\ UNCHANGED sessionVars
  /\ UNCHANGED <<parallel, cur, binHas, results, consensus>>

\* variant: only the workers whose dispatch succeeded contribute a verdict
VerdictForSuccessful(i) ==
  IF result[i] # <<>> /\ result[i][1].success THEN verdictOf[i] ELSE <<>>

\* the value the promise runWorker(configs[i]) resolved with, as a list of one
VerdictFor(i) == verdictOf[i]

\* variant: the join resolves with the first runWorker promise
AnyReturned == \E w \in Workers : verdictOf[w] # <<>>

\* Promise.all resolves when every runWorker promise has resolved
AllReturned == \A w \in Workers : verdictOf[w] # <<>>

\* the values of the resolved runWorker promises, in config order
RECURSIVE Returned(_)
Returned(n) == IF n = 0 THEN <<>> ELSE Returned(n - 1) \o VerdictFor(n)

JoinParallel ==
  /\ pc = "running"
  /\ parallel
  /\ AllReturned
  /\ results' = Returned(NumWorkers)
  /\ pc' = "joined"
  /\ UNCHANGED sessionVars
  /\ UNCHANGED <<parallel, cur, binHas, childVars, verdictOf, parsedOf, consensus>>

\* the for loop enters its first iteration
RunWorkersSequential ==
  /\ pc = "start"
  /\ ~parallel
  /\ \E launch \in Launches : SpawnWorkers({1}, launch)
  /\ cur' = 1
  /\ pc' = "running"
  /\ UNCHANGED sessionVars
  /\ UNCHANGED <<parallel, binHas, results, consensus>>

\* variant: the loop does not await
NotAwaited(i) == TRUE

\* `await runWorker(config)` of the current iteration has a value
Awaited(i) == verdictOf[i] # <<>>

\* results.push(await runWorker(config)), then the next iteration or the return
SequentialNext ==
  /\ pc = "running"
  /\ ~parallel
  /\ Awaited(cur)
  /\ results' = results \o VerdictFor(cur)
  /\ IF cur < NumWorkers
     THEN /\ \E launch \in Launches : SpawnWorkers({cur + 1}, launch)
          /\ cur' = cur + 1
          /\ pc' = pc
     ELSE /\ pc' = "joined"
          /\ UNCHANGED <<cur, childVars, verdictOf, parsedOf>>
  /\ UNCHANGED sessionVars
  /\ UNCHANGED <<parallel, binHas, consensus>>

(* ------------------------ judge.ts: runJudgeCommand -------------------- *)

\* const consensus = calculateConsensus(verdicts)
Consensus ==
  /\ pc = "joined"
  /\ consensus' = <<calculateConsensus(results)>>
  /\ pc' = "done"
  /\ UNCHANGED sessionVars
  /\ UNCHANGED <<parallel, cur, binHas, childVars, verdictOf, parsedOf, results>>

Next ==
  \/ RunWorkersParallel
  \/ RunWorkersSequential
  \/ SequentialNext
  \/ JoinParallel
  \/ Consensus
  \/ \E w \in Workers :
       \/ \E chunk \in OutChunks : ChildWrite(w, chunk)
       \/ ChildWriteErr(w)
       \/ \E code \in {"0", "1"} : ChildExit(w, code)
       \/ ChildDie(w)
       \/ \E effect \in {"dying", "running"} : TimerFire(w, effect)
       \/ CloseEvent(w)
       \/ ErrorEvent(w)

Spec == Init /\ [][Next]_vars

(* the event loop runs every enabled callback, the operating system ends a  *)
(* process that does not handle SIGTERM; nothing obliges a child to exit    *)
(* or to write                                                              *)
Fairness ==
  /\ WF_vars(RunWorkersParallel)
  /\ WF_vars(RunWorkersSequential)
  /\ WF_vars(SequentialNext)
  /\ WF_vars(JoinParallel)
  /\ WF_vars(Consensus)
  /\ \A w \in Workers :
       /\ WF_vars(\E effect \in {"dying", "running"} : TimerFire(w, effect))
       /\ WF_vars(ChildDie(w))
       /\ WF_vars(CloseEvent(w))
       /\ WF_vars(ErrorEvent(w))

FairSpec == Spec /\ Fairness

(* ------------- calculateConsensus on its own, on any list -------------- *)

VerdictInputs == Verdict \cup {"maybe", "toString"}
ConfidenceInputs == {0, 70, 80, 90, 150}
ConcernInputs == {<<>>, <<"a", "b">>, <<"b", "a", "b">>}
RecommendationInputs == {<<>>, <<"r">>, <<"q", "r">>}
WeighedVerdictInputs == {"approve", "reject", "neutral", "toString"}

VerdictList(n, vs, cs) ==
  [i \in 1..n |-> [worker |-> i, verdict |-> vs[i], confidence |-> cs[i],
                   summary |-> <<>>, concerns |-> <<>>, recommendations |-> <<>>,
                   rawOutput |-> <<>>]]

VerdictListWith(n, ks, rs) ==
  [i \in 1..n |-> [worker |-> i, verdict |-> "concern", confidence |-> 50,
                   summary |-> <<>>, concerns |-> ks[i], recommendations |-> rs[i],
                   rawOutput |-> <<>>]]

InitConsensus ==
  /\ parallel = TRUE
  /\ pc = "joined"
  /\ cur = 0
  /\ binHas = [w \in Workers |-> TRUE]
  /\ Idle
  /\ SessionIdle
  /\ \/ \E n \in 0..MaxConfidences :
          \E vs \in [1..n -> WeighedVerdictInputs], cs \in [1..n -> ConfidenceInputs] :
            results = VerdictList(n, vs, cs)
     \/ \E n \in 0..MaxVerdicts :
       \/ \E vs \in [1..n -> VerdictInputs] :
            results = VerdictList(n, vs, [i \in 1..n |-> 50])
       \/ \E ks \in [1..n -> ConcernInputs], rs \in [1..n -> RecommendationInputs] :
            results = VerdictListWith(n, ks, rs)
  /\ consensus = <<>>

NextConsensus == Consensus

SpecConsensus == InitConsensus /\ [][NextConsensus]_vars

(* ---------- runWorker after its await, on any captured output ---------- *)

\* runWorker resumes with the settled result: parse, then build the verdict
RunWorkerResume(w) ==
  /\ result[w] # <<>>
  /\ verdictOf[w] = <<>>
  /\ parsedOf' = [parsedOf EXCEPT ![w] = <<parseWorkerOutput(result[w][1].output)>>]
  /\ verdictOf' = [verdictOf EXCEPT ![w] = <<WorkerVerdictOf(w, result[w][1])>>]
  /\ UNCHANGED sessionVars
  /\ UNCHANGED <<parallel, pc, cur, binHas, childVars, results, consensus>>

\* any sequence of these tokens, up to MaxText long
CoreToks == {LB, RB, PROSE, VWORD, NKEY, "v:approve", "v:null", "c:str", "k:brace"}

Opt(toks) == {<<>>} \cup {<<t>> : t \in toks}

\* a dispatch that succeeded, or one that failed with a diagnostic
ResultInput(success, output) ==
  [success |-> success, output |-> output,
   error |-> IF success THEN NoText ELSE Text(TimeoutMarker)]

\* worker 1's dispatch has settled with r, nothing else has happened
OnlyFirst(r) == [w \in Workers |-> IF w = 1 THEN <<r>> ELSE <<>>]

\* the captured output is any token sequence, or an object with a verdict
\* member and any choice of the other members, alone or with prose around it
InitResult ==
  \E success \in BOOLEAN :
    \/ \E m \in 0..MaxText : \E o \in [1..m -> CoreToks] :
         result = OnlyFirst(ResultInput(success, o))
    \/ \E pre \in Opt({PROSE}), v \in Opt(VerdictToks) \ {<<>>}, c \in Opt(ConfToks),
          sm \in Opt(SummaryToks), k \in Opt(ConcernToks), r \in Opt(RecToks),
          post \in Opt({PROSE}) :
         result = OnlyFirst(ResultInput(success,
                    pre \o <<LB>> \o v \o c \o sm \o k \o r \o <<RB>> \o post))

InitRunWorker ==
  /\ parallel = TRUE
  /\ pc = "running"
  /\ cur = 0
  /\ binHas = [w \in Workers |-> TRUE]
  /\ proc = [w \in Workers |-> "none"]
  /\ exitCode = [w \in Workers |-> "-"]
  /\ stdout = [w \in Workers |-> <<>>]
  /\ stderr = [w \in Workers |-> <<>>]
  /\ writes = [w \in Workers |-> 0]
  /\ timedOut = [w \in Workers |-> FALSE]
  /\ timer = [w \in Workers |-> "unset"]
  /\ sigterm = [w \in Workers |-> {}]
  /\ InitResult
  /\ SessionIdle
  /\ settledBy = [w \in Workers |-> "none"]
  /\ verdictOf = [w \in Workers |-> <<>>]
  /\ parsedOf = [w \in Workers |-> <<>>]
  /\ results = <<>>
  /\ consensus = <<>>

NextRunWorker == \E w \in Workers : RunWorkerResume(w)

SpecRunWorker == InitRunWorker /\ [][NextRunWorker]_vars




(* ----------- session.ts: listSessions / getMostRecentSession ----------- *)

\* a file name is a stem, a sequence of pieces, and an extension; the piece
\* "agent-" stands for these six characters, every other piece for one
JsonlExt == ".jsonl"
AgentPrefix == "agent-"

\* f.endsWith('.jsonl') && !f.startsWith('agent-')
IsSessionFile(f) == f.ext = JsonlExt /\ (f.stem = <<>> \/ f.stem[1] # AgentPrefix)

\* files.filter(IsSessionFile)
SessionFiles(files) == SelectSeq(files, LAMBDA e : IsSessionFile(e.name))

\* the map callback: fs.statSync(sessionPath), then the descriptor
SessionInfoOf(e) == [id |-> e.name.stem, path |-> e.name, modifiedAt |-> e.mtime]

\* variant: oldest first
CompareAscending(a, b) == a.modifiedAt - b.modifiedAt

\* the comparator (a, b) => b.modifiedAt.getTime() - a.modifiedAt.getTime()
Compare(a, b) == b.modifiedAt - a.modifiedAt

\* Array.prototype.sort with that comparator: stable, an element goes behind
\* the elements it does not have to precede
RECURSIVE InsertSorted(_, _)
InsertSorted(x, sorted) ==
  IF sorted = <<>> THEN <<x>>
  ELSE IF Compare(Head(sorted), x) > 0 THEN <<x>> \o sorted
  ELSE <<Head(sorted)>> \o InsertSorted(x, Tail(sorted))

RECURSIVE SortSessions(_, _)
SortSessions(list, sorted) ==
  IF list = <<>> THEN sorted
  ELSE SortSessions(Tail(list), InsertSorted(Head(list), sorted))

\* existsSync, then readdirSync, filter, map and sort inside one try/catch
listSessions(d) ==
  IF ~d.exists THEN <<>>
  ELSE IF ~d.readable THEN <<>>
  ELSE LET kept == SessionFiles(d.files)
       IN IF \E i \in 1..Len(kept) : ~kept[i].stat THEN <<>>
          ELSE SortSessions([i \in 1..Len(kept) |-> SessionInfoOf(kept[i])], <<>>)

\* sessions[0] ?? null
FirstOrNone(list) == IF list = <<>> THEN <<>> ELSE <<list[1]>>

(* ----------------- judge.ts: runJudgeCommand, the session --------------- *)

\* s.startsWith(p)
StartsWith(s, p) == Len(p) <= Len(s) /\ SubSeq(s, 1, Len(p)) = p

\* sessions.find(s => s.id === sessionArg || s.id.startsWith(sessionArg))
FindSession(list, arg) ==
  LET at == {i \in 1..Len(list) : list[i].id = arg \/ StartsWith(list[i].id, arg)}
  IN IF at = {} THEN <<>> ELSE <<list[Least(at)]>>

\* the session of the command: the one opts.session names, else the most
\* recent one; found = << <<>> >> is the "not found" exit
SelectSession ==
  /\ found = <<>>
  /\ sessions' = <<listSessions(dir)>>
  /\ found' = IF sessionArg # <<>>
              THEN <<FindSession(listSessions(dir), sessionArg[1])>>
              ELSE <<FirstOrNone(listSessions(dir))>>
  /\ UNCHANGED <<parallel, pc, cur, binHas, childVars, verdictOf, parsedOf, results,
                 consensus>>
  /\ UNCHANGED <<dir, sessionArg, lines, session, opts, context, promptTemplate, prompt>>

(* ----------------------- session.ts: parseSession ---------------------- *)

\* a line of the file is what decoding it gives: kind "empty" (no character),
\* "malformed" (JSON.parse throws), "null" (the JSON value null) or "record"
\* (an object, with the fields the code reads); timestamp is <<>> when
\* new Date(timestamp) is an invalid date, message is whether the record
\* carries a message object, content is <<>> when message.content is undefined

\* .filter(Boolean) on the split lines
NonEmptyLines(ls) == SelectSeq(ls, LAMBDA l : l.kind # "empty")

\* the body of the try block throws: JSON.parse on a malformed line, the read
\* of parsed.message on null
LineThrows(l) == l.kind \in {"malformed", "null"}

\* variant: records flagged meta are kept
IsConversationMetaKept(parsed) ==
  parsed.message /\ parsed.type \in {"user", "assistant"}

\* parsed.message && (type === 'user' || type === 'assistant') && !parsed.isMeta
IsConversation(parsed) ==
  parsed.message /\ parsed.type \in {"user", "assistant"} /\ ~parsed.isMeta

\* the for loop over the lines, each in its own try/catch
RECURSIVE ParseLines(_, _)
ParseLines(ls, messages) ==
  IF ls = <<>> THEN messages
  ELSE LET line == Head(ls)
       IN IF LineThrows(line) THEN ParseLines(Tail(ls), messages)
          ELSE IF IsConversation(line) THEN ParseLines(Tail(ls), Append(messages, line))
          ELSE ParseLines(Tail(ls), messages)

\* messages.map(m => new Date(m.timestamp)).filter(d => !isNaN(d.getTime()))
RECURSIVE ValidTimestamps(_)
ValidTimestamps(messages) ==
  IF messages = <<>> THEN <<>>
  ELSE Head(messages).timestamp \o ValidTimestamps(Tail(messages))

\* messages.find(m => m.cwd)?.cwd
RECURSIVE FirstCwd(_)
FirstCwd(messages) ==
  IF messages = <<>> THEN <<>>
  ELSE IF Head(messages).cwd # <<>> THEN Head(messages).cwd
  ELSE FirstCwd(Tail(messages))

\* what new Date() gives: a time no timestamp of the file has
Now == 9

parseSession(ls) ==
  LET messages == ParseLines(NonEmptyLines(ls), <<>>)
      timestamps == ValidTimestamps(messages)
  IN [id |-> "s", messages |-> messages, cwd |-> FirstCwd(messages),
      startTime |-> IF timestamps = <<>> THEN Now ELSE timestamps[1],
      endTime |-> IF timestamps = <<>> THEN Now ELSE timestamps[Len(timestamps)]]

\* session = parseSession(found.path)
ParseSession ==
  /\ session = <<>>
  /\ session' = <<parseSession(lines)>>
  /\ UNCHANGED <<parallel, pc, cur, binHas, childVars, verdictOf, parsedOf, results,
                 consensus>>
  /\ UNCHANGED <<dir, sessionArg, sessions, found, lines, opts, context,
                 promptTemplate, prompt>>

(* ---------------------- session.ts: extractContext --------------------- *)

\* a text is a sequence of characters
HumanLabel == <<"H", "u", "m", "a", "n", ":", " ">>
AssistantLabel == <<"A", "s", "s", "i", "s", "t", "a", "n", "t", ":", " ">>
BlankLine == <<"\n", "\n">>
TruncationMarker ==
  <<"[", ".", ".", ".", "e", "a", "r", "l", "i", "e", "r", " ", "m", "e", "s", "s", "a", "g", "e", "s", " ", "t", "r", "u", "n", "c", "a", "t", "e", "d", "]">>
  \o BlankLine

\* the defaults of the options: { maxMessages = 30, maxChars = 60000 }
DefaultMaxMessages == 30
DefaultMaxChars == 60000
OptionOr(opt, default) == IF opt = <<>> THEN default ELSE opt[1]

\* s.slice(-n) for n >= 0, on arrays and on strings: -0 is 0, the start of s
SliceLast(s, n) ==
  IF n = 0 THEN s
  ELSE SubSeq(s, (IF Len(s) > n THEN Len(s) - n ELSE 0) + 1, Len(s))

\* `${role}: ${content}` with content = m.message?.content ?? ''
RenderMessage(m) ==
  (IF m.type = "user" THEN HumanLabel ELSE AssistantLabel)
  \o (IF m.content = <<>> THEN <<>> ELSE m.content[1])

\* recent.map(render).join('\n\n')
RECURSIVE RenderMessages(_)
RenderMessages(recent) ==
  IF recent = <<>> THEN <<>>
  ELSE IF Len(recent) = 1 THEN RenderMessage(recent[1])
  ELSE RenderMessage(Head(recent)) \o BlankLine \o RenderMessages(Tail(recent))

extractContext(s, options) ==
  LET maxMessages == OptionOr(options.maxMessages, DefaultMaxMessages)
      maxChars == OptionOr(options.maxChars, DefaultMaxChars)
      recent == SliceLast(s.messages, maxMessages)
      formatted == RenderMessages(recent)
  IN IF Len(formatted) > maxChars
     THEN TruncationMarker \o SliceLast(formatted, maxChars)
     ELSE formatted

\* const context = extractContext(session, options)
ExtractContext ==
  /\ session # <<>>
  /\ context = <<>>
  /\ context' = <<extractContext(session[1], opts)>>
  /\ UNCHANGED <<parallel, pc, cur, binHas, childVars, verdictOf, parsedOf, results,
                 consensus>>
  /\ UNCHANGED <<dir, sessionArg, sessions, found, lines, session, opts,
                 promptTemplate, prompt>>

(* --------------- extractContext on its own, on any session -------------- *)

ContentInputs == {<<>>, << <<"a">> >>, << <<"b", "c">> >>}
MessageInputs ==
  [type : {"user", "assistant"}, content : ContentInputs, timestamp : {<<1>>},
   cwd : {<<>>}]
OptionInputs(max) == {<<>>} \cup {<<n>> : n \in 0..max}

\* the parts of the state the session specifications do not use
WorkersIdle ==
  /\ parallel = TRUE
  /\ pc = "start"
  /\ cur = 0
  /\ binHas = [w \in Workers |-> TRUE]
  /\ Idle
  /\ results = <<>>
  /\ consensus = <<>>

InitContext ==
  /\ WorkersIdle
  /\ dir = [exists |-> FALSE, readable |-> TRUE, files |-> <<>>]
  /\ sessionArg = <<>>
  /\ sessions = <<>>
  /\ found = <<>>
  /\ lines = <<>>
  /\ \E n \in 0..MaxSessionMessages : \E ms \in [1..n -> MessageInputs] :
       session = <<[id |-> "s", messages |-> ms, cwd |-> <<>>,
                    startTime |-> Now, endTime |-> Now]>>
  /\ opts \in [maxMessages : OptionInputs(MaxMessagesOpt), maxChars : OptionInputs(MaxCharsOpt)]
  /\ context = <<>>
  /\ promptTemplate = <<>>
  /\ prompt = <<>>

NextContext == ExtractContext

SpecContext == InitContext /\ [][NextContext]_vars


(* ---------------- parseSession on its own, on any file ------------------ *)

Line(kind, type, message, isMeta, timestamp, cwd) ==
  [kind |-> kind, type |-> type, message |-> message, content |-> << <<"a">> >>,
   isMeta |-> isMeta, timestamp |-> timestamp, cwd |-> cwd]

\* lines that are not records
EmptyLine == Line("empty", "", FALSE, FALSE, <<>>, <<>>)
MalformedLine == Line("malformed", "", FALSE, FALSE, <<>>, <<>>)
NullLine == Line("null", "", FALSE, FALSE, <<>>, <<>>)

\* records of every type, with and without a message, meta or not
FilterLineInputs ==
  {EmptyLine, MalformedLine, NullLine} \cup
  {Line("record", t, m, meta, <<1>>, <<"/p">>) :
     t \in {"user", "assistant", "file-history-snapshot"}, m \in BOOLEAN, meta \in BOOLEAN}

\* conversation records with every timestamp, valid or not, beside a
\* malformed line and a snapshot record that is not retained
TimeLineInputs ==
  {MalformedLine, Line("record", "file-history-snapshot", FALSE, FALSE, <<0>>, <<>>)} \cup
  {Line("record", "user", TRUE, FALSE, ts, <<>>) : ts \in {<<>>, <<1>>, <<2>>, <<3>>}}

InitParse ==
  /\ WorkersIdle
  /\ dir = [exists |-> FALSE, readable |-> TRUE, files |-> <<>>]
  /\ sessionArg = <<>>
  /\ sessions = <<>>
  /\ found = <<>>
  /\ \E n \in 0..MaxLines :
       \/ lines \in [1..n -> FilterLineInputs]
       \/ lines \in [1..n -> TimeLineInputs]
  /\ session = <<>>
  /\ opts = [maxMessages |-> <<>>, maxChars |-> <<>>]
  /\ context = <<>>
  /\ promptTemplate = <<>>
  /\ prompt = <<>>

NextParse == ParseSession

SpecParse == InitParse /\ [][NextParse]_vars


(* ------------- the session selection on its own, on any directory ------- *)

FileNames ==
  {[stem |-> <<"a", "b">>, ext |-> JsonlExt], [stem |-> <<"a", "b", "c">>, ext |-> JsonlExt],
   [stem |-> <<AgentPrefix, "a">>, ext |-> JsonlExt], [stem |-> <<"a", "b">>, ext |-> ".txt"]}

SessionArgInputs == {<<>>, << <<"a", "b">> >>, << <<"a", "b", "c">> >>, << <<"z">> >>}

\* the directory listings of up to max distinct files
Listings(max) ==
  UNION {{fs \in [1..n -> [name : FileNames, mtime : 1..MaxMtime, stat : BOOLEAN]] :
            \A i, j \in 1..n : i # j => fs[i].name # fs[j].name} : n \in 0..max}

InitSelect ==
  /\ WorkersIdle
  /\ \/ dir = [exists |-> FALSE, readable |-> TRUE, files |-> <<>>]
     \/ \E fs \in Listings(1) : dir = [exists |-> TRUE, readable |-> FALSE, files |-> fs]
     \/ \E fs \in Listings(MaxFiles) : dir = [exists |-> TRUE, readable |-> TRUE, files |-> fs]
  /\ sessionArg \in SessionArgInputs
  /\ sessions = <<>>
  /\ found = <<>>
  /\ lines = <<>>
  /\ session = <<>>
  /\ opts = [maxMessages |-> <<>>, maxChars |-> <<>>]
  /\ context = <<>>
  /\ promptTemplate = <<>>
  /\ prompt = <<>>

NextSelect == SelectSession

SpecSelect == InitSelect /\ [][NextSelect]_vars


(* --------------- workers.ts: runWorker, the prompt ---------------------- *)

\* the text {context}, kept as one piece of a text
Placeholder == "{context}"

\* the characters a replacement pattern is made of
Dollar == "$"
Ampersand == "&"
Backtick == "backtick"
Apostrophe == "apostrophe"

\* the replacement text String.prototype.replace builds from its second
\* argument: dollar dollar is a dollar sign, dollar ampersand the matched
\* text, dollar backtick the text before the match, dollar apostrophe the
\* text after it; any other character stands for itself
RECURSIVE GetSubstitution(_, _, _, _)
GetSubstitution(replacement, matched, before, after) ==
  IF replacement = <<>> THEN <<>>
  ELSE IF Head(replacement) = Dollar /\ Len(replacement) >= 2
       THEN LET c == replacement[2]
                rest == SubSeq(replacement, 3, Len(replacement))
            IN IF c = Dollar THEN <<Dollar>> \o GetSubstitution(rest, matched, before, after)
               ELSE IF c = Ampersand THEN matched \o GetSubstitution(rest, matched, before, after)
               ELSE IF c = Backtick THEN before \o GetSubstitution(rest, matched, before, after)
               ELSE IF c = Apostrophe THEN after \o GetSubstitution(rest, matched, before, after)
               ELSE <<Dollar>> \o GetSubstitution(Tail(replacement), matched, before, after)
  ELSE <<Head(replacement)>> \o GetSubstitution(Tail(replacement), matched, before, after)

\* template.replace('{context}', replacement): the first occurrence only
Replace(template, replacement) ==
  LET at == {i \in 1..Len(template) : template[i] = Placeholder}
  IN IF at = {} THEN template
     ELSE LET p == Least(at)
              before == SubSeq(template, 1, p - 1)
              after == SubSeq(template, p + 1, Len(template))
          IN before \o GetSubstitution(replacement, <<Placeholder>>, before, after) \o after

\* const prompt = config.promptTemplate.replace('{context}', context)
RunWorkerPrompt ==
  /\ context # <<>>
  /\ prompt = <<>>
  /\ prompt' = <<Replace(promptTemplate, context[1])>>
  /\ UNCHANGED <<parallel, pc, cur, binHas, childVars, verdictOf, parsedOf, results,
                 consensus>>
  /\ UNCHANGED <<dir, sessionArg, sessions, found, lines, session, opts, context,
                 promptTemplate>>

(* ------------- the prompt on its own, on any context string ------------- *)

ContextChars == {"x", Dollar, Ampersand, Backtick, Apostrophe, Placeholder}
TemplateInputs == {<<"p", Placeholder, "q">>, <<Placeholder>>}

InitPrompt ==
  /\ WorkersIdle
  /\ dir = [exists |-> FALSE, readable |-> TRUE, files |-> <<>>]
  /\ sessionArg = <<>>
  /\ sessions = <<>>
  /\ found = <<>>
  /\ lines = <<>>
  /\ session = <<>>
  /\ opts = [maxMessages |-> <<>>, maxChars |-> <<>>]
  /\ \E n \in 0..MaxContext : \E c \in [1..n -> ContextChars] : context = <<c>>
  /\ promptTemplate \in TemplateInputs
  /\ prompt = <<>>

NextPrompt == RunWorkerPrompt

SpecPrompt == InitPrompt /\ [][NextPrompt]_vars

(* =============================== claims ================================ *)

Settled(w) == result[w] # <<>>
Res(w) == result[w][1]
\* runWorker has been called for w
Dispatched(w) == pc # "start" /\ (parallel \/ cur >= w)
\* w's dispatch is unresolved and a process (or a failed launch) stands behind it
InFlight(w) == proc[w] \in {"running", "dying", "exited", "spawnfail"}
\* number of entries of the verdict list that carry verdict k
Votes(k) == Cardinality({i \in 1..Len(results) : results[i].verdict = k})

\* C1: for every non-empty verdict list the final verdict is reject when
\* rejects > 0 and rejects >= approvals; otherwise approve when approvals >
\* concerns + rejects; otherwise concern when concerns > 0 or rejects > 0;
\* otherwise mixed.
C1_FinalVerdictPriority ==
  (consensus # <<>> /\ Len(results) > 0) =>
    LET a == Votes("approve")
        r == Votes("reject")
        c == Votes("concern")
        rejectWins == r > 0 /\ r >= a
        approveWins == ~rejectWins /\ a > c + r
        concernWins == ~rejectWins /\ ~approveWins /\ (c > 0 \/ r > 0)
        final == consensus[1].finalVerdict
    IN /\ rejectWins => final = "reject"
       /\ approveWins => final = "approve"
       /\ concernWins => final = "concern"
       /\ (~rejectWins /\ ~approveWins /\ ~concernWins) => final = "mixed"

\* a tie between rejects and approvals, with a concern beside them, is a reject
C1_Witness ==
  /\ consensus # <<>>
  /\ Votes("reject") = 1 /\ Votes("approve") = 1 /\ Votes("concern") = 1
  /\ consensus[1].finalVerdict = "reject"

\* C2: every WorkerVerdict runWorker returns has a verdict in the closed set
\* {approve, reject, concern, neutral} and a confidence in 0..100, whatever
\* the worker wrote.
C2_VerdictInClosedSet ==
  \A w \in Workers :
    verdictOf[w] # <<>> =>
      /\ verdictOf[w][1].verdict \in Verdict
      /\ verdictOf[w][1].confidence \in 0..100

\* C3: a worker whose dispatch is not a success gets verdict neutral,
\* whatever its process had written.
C3_FailedDispatchIsNeutral ==
  \A w \in Workers :
    (Settled(w) /\ verdictOf[w] # <<>> /\ ~Res(w).success) =>
      verdictOf[w][1].verdict = "neutral"

\* C4: every dispatched worker's dispatch eventually resolves, whatever its
\* child does, and the consensus is eventually computed.
C4_EveryDispatchResolves ==
  /\ \A w \in Workers : Dispatched(w) ~> Settled(w)
  /\ <>(consensus # <<>>)

\* C5: a result is a success exactly when the dispatch was settled by a
\* 'close' with exit status 0 and the timer had not fired by then.
C5_SuccessIffCleanClose ==
  \A w \in Workers :
    Settled(w) =>
      (Res(w).success <=>
         (settledBy[w] = "close" /\ exitCode[w] = "0" /\ timer[w] # "fired"))

\* the timer fired, the process then reported status 0 with output captured:
\* not a success
C5_Witness ==
  \E w \in Workers :
    /\ Settled(w) /\ settledBy[w] = "close"
    /\ timer[w] = "fired" /\ exitCode[w] = "0"
    /\ Res(w).output # <<>>
    /\ ~Res(w).success

\* C6 as stated: the diagnostic of a failed result of a launched process is
\* standard error if non-empty, else the exit-code text, else the timeout marker.
C6_DiagnosticAsStated ==
  \A w \in Workers :
    (Settled(w) /\ settledBy[w] = "close" /\ ~Res(w).success) =>
      Res(w).error =
        IF stderr[w] # <<>> THEN Text(stderr[w])
        ELSE IF exitCode[w] # "0" THEN Text(ExitCodeText(exitCode[w]))
        ELSE Text(TimeoutMarker)

\* C6 amended: the diagnostic of a failed result of a launched process is the
\* timeout marker when the timer fired; otherwise standard error if non-empty,
\* else the exit-code text.
C6_DiagnosticOrder ==
  \A w \in Workers :
    (Settled(w) /\ settledBy[w] = "close" /\ ~Res(w).success) =>
      Res(w).error =
        IF timer[w] = "fired" THEN Text(TimeoutMarker)
        ELSE IF stderr[w] # <<>> THEN Text(stderr[w])
        ELSE Text(ExitCodeText(exitCode[w]))

\* a timed-out process that had written to standard error
C6_Witness ==
  \E w \in Workers :
    /\ Settled(w) /\ settledBy[w] = "close" /\ ~Res(w).success
    /\ timer[w] = "fired" /\ stderr[w] # <<>>
    /\ Res(w).error = Text(TimeoutMarker)

\* C7: in parallel mode a process is signalled only by its own worker's timer
\* callback, only once that timer has fired, and a settled result carries the
\* output of the worker's own process.
C7_NoSiblingInterference ==
  parallel =>
    \A w \in Workers :
      /\ sigterm[w] \subseteq {w}
      /\ sigterm[w] # {} => timer[w] = "fired"
      /\ (Settled(w) /\ settledBy[w] # "notfound") => Res(w).output = stdout[w]

\* one worker timed out and its process was signalled, a sibling succeeded
C7_Witness ==
  /\ parallel
  /\ \E w, x \in Workers :
       /\ w # x
       /\ sigterm[w] = {w} /\ Settled(w) /\ ~Res(w).success
       /\ sigterm[x] = {} /\ Settled(x) /\ Res(x).success

\* C8: when calculateConsensus is called every dispatch has resolved, and the
\* list it is given has one entry per worker, the i-th from the i-th worker.
C8_ConsensusAfterAllResolved ==
  pc \in {"joined", "done"} =>
    /\ \A w \in Workers : Settled(w) /\ verdictOf[w] # <<>>
    /\ Len(results) = NumWorkers
    /\ \A i \in 1..Len(results) : results[i].worker = i

\* consensus computed in parallel mode with one worker timed out
C8_Witness ==
  /\ consensus # <<>>
  /\ parallel
  /\ \E w \in Workers : timer[w] = "fired"
  /\ \E w \in Workers : Res(w).success

\* C9: in sequential mode at most one dispatch is in flight, and worker i+1 is
\* dispatched only after worker i's dispatch has resolved.
C9_SequentialOneAtATime ==
  ~parallel =>
    /\ Cardinality({w \in Workers : InFlight(w)}) <= 1
    /\ \A w \in Workers : (w > 1 /\ (Dispatched(w) \/ proc[w] # "none")) => Settled(w - 1)

\* the second worker runs after the first one failed
C9_Witness ==
  /\ ~parallel
  /\ NumWorkers >= 2
  /\ Settled(1) /\ ~Res(1).success /\ settledBy[1] = "close"
  /\ proc[2] = "running"

\* C10: a worker whose executable is absent gets a failure result with the
\* not-found diagnostic, and neither a process nor a timer exists for it.
C10_NotFoundNoSpawn ==
  \A w \in Workers :
    (Dispatched(w) /\ ~binHas[w]) =>
      /\ Settled(w)
      /\ ~Res(w).success
      /\ Res(w).error = Text(NotFoundError)
      /\ proc[w] = "none"
      /\ timer[w] = "unset"

\* an absent executable was dispatched
C10_Witness ==
  \E w \in Workers :
    /\ ~binHas[w] /\ Dispatched(w)
    /\ Settled(w) /\ settledBy[w] = "notfound"
    /\ proc[w] = "none"

\* C11: when parsing the captured output yields nothing, runWorker returns
\* verdict neutral, confidence 0, the dispatch error (or, without one, the
\* no-verdict message) as summary, and empty concerns and recommendations.
C11_ParseFailureStandIn ==
  \A w \in Workers :
    (verdictOf[w] # <<>> /\ parsedOf[w] # <<>> /\ ~parsedOf[w][1].ok) =>
      /\ verdictOf[w][1].verdict = "neutral"
      /\ verdictOf[w][1].confidence = 0
      /\ verdictOf[w][1].summary =
           IF Res(w).error.def THEN Res(w).error.text ELSE NoVerdictSummary
      /\ verdictOf[w][1].concerns = <<>>
      /\ verdictOf[w][1].recommendations = <<>>

\* a timed-out worker whose output holds braces around the word "verdict"
\* that do not decode
C11_Witness ==
  \E w \in Workers :
    /\ verdictOf[w] # <<>> /\ parsedOf[w] # <<>> /\ ~parsedOf[w][1].ok
    /\ JsonMatch(Res(w).output) # <<0, 0>>
    /\ ~Res(w).success
    /\ verdictOf[w][1].summary = TimeoutMarker

\* the largest of the four tallies of the list handed to calculateConsensus,
\* counted without the tally loop
MaxVotes == Greatest({Votes(k) : k \in Verdict})

\* C12: for every non-empty verdict list, agreement equals
\* round(100 * maxCount / n), maxCount the largest of the four tallies
\* (approve, reject, concern, neutral) and n the number of verdicts.
C12_AgreementIsRoundedShare ==
  (consensus # <<>> /\ results # <<>>) =>
    consensus[1].agreement = Num(RoundDiv(100 * MaxVotes, Len(results)))

\* the sum of the confidences of the list handed to calculateConsensus
RECURSIVE ConfidenceSum(_)
ConfidenceSum(i) == IF i = 0 THEN 0 ELSE results[i].confidence + ConfidenceSum(i - 1)

\* c is x / y rounded to the nearest integer, halves upwards (Math.round)
IsRounded(c, x, y) == (2 * c - 1) * y <= 2 * x /\ 2 * x < (2 * c + 1) * y

\* C13: for every non-empty verdict list, confidence equals
\* round(mean of the workers' confidences * agreement / 100), agreement being
\* the already-rounded percentage of the result (not a number when the
\* agreement is not a number); [approve(90), approve(80), reject(70)] gives
\* agreement 67 and confidence 54.
C13_ConfidenceIsWeightedMean ==
  (consensus # <<>> /\ results # <<>>) =>
    LET c == consensus[1]
    IN /\ IsNaN(c.agreement) => IsNaN(c.confidence)
       /\ ~IsNaN(c.agreement) =>
            /\ ~IsNaN(c.confidence)
            /\ IsRounded(c.confidence[1], ConfidenceSum(Len(results)) * c.agreement[1],
                         100 * Len(results))
       /\ ([i \in 1..Len(results) |-> <<results[i].verdict, results[i].confidence>>]
             = << <<"approve", 90>>, <<"approve", 80>>, <<"reject", 70>> >>)
            => (c.agreement = Num(67) /\ c.confidence = Num(54))

\* the example of the claim has been computed
C13_Witness ==
  /\ consensus # <<>>
  /\ [i \in 1..Len(results) |-> <<results[i].verdict, results[i].confidence>>]
       = << <<"approve", 90>>, <<"approve", 80>>, <<"reject", 70>> >>
  /\ consensus[1].confidence = Num(54)

\* the hypothesis of C14 on the list handed to calculateConsensus
WellFormedVerdicts ==
  \A i \in 1..Len(results) :
    results[i].verdict \in Verdict /\ results[i].confidence \in 0..100

\* C14: for every non-empty list of verdicts in the closed set with integer
\* confidences in 0..100, agreement and confidence are integers in 0..100.
C14_PercentagesInRange ==
  (consensus # <<>> /\ results # <<>> /\ WellFormedVerdicts) =>
    /\ ~IsNaN(consensus[1].agreement) /\ consensus[1].agreement[1] \in 0..100
    /\ ~IsNaN(consensus[1].confidence) /\ consensus[1].confidence[1] \in 0..100

\* three workers who all differ, one of them fully confident
C14_Witness ==
  /\ consensus # <<>> /\ Len(results) = 3 /\ WellFormedVerdicts
  /\ consensus[1].agreement = Num(33)
  /\ \E i \in 1..3 : results[i].confidence = 90
  /\ consensus[1].confidence[1] > 0

\* the workers the claim C15 calls dissenting from the final verdict
DissentsFrom(final, v) ==
  CASE final \in {"approve", "reject"} -> v.verdict # final
    [] final = "concern" -> v.verdict \notin {"concern", "reject"}
    [] OTHER -> FALSE

\* C15: the dissenting list is exactly the input verdicts, in input order,
\* whose verdict differs from the final label when the final verdict is
\* approve or reject, whose verdict is neither concern nor reject when it is
\* concern, and it is empty when the final verdict is mixed.
C15_DissentingList ==
  consensus # <<>> =>
    /\ consensus[1].dissenting =
         SelectSeq(results, LAMBDA v : DissentsFrom(consensus[1].finalVerdict, v))
    /\ consensus[1].finalVerdict = "mixed" => consensus[1].dissenting = <<>>

\* a concern consensus with a reject voter, who is not among the two dissenters
C15_Witness ==
  /\ consensus # <<>>
  /\ consensus[1].finalVerdict = "concern"
  /\ Votes("reject") = 1
  /\ Len(consensus[1].dissenting) = 2
  /\ \A i \in 1..2 : consensus[1].dissenting[i].verdict = "approve"

\* the list handed to calculateConsensus holds only the stand-ins runWorker
\* builds for workers without a usable verdict
OnlyDegraded ==
  /\ results # <<>>
  /\ \A i \in 1..Len(results) :
       /\ results[i].verdict = "neutral" /\ results[i].confidence = 0
       /\ results[i].concerns = <<>> /\ results[i].recommendations = <<>>

\* C16: calculateConsensus is total: on the empty list it returns exactly
\* {mixed, confidence 0, agreement 0, the no-verdicts summary, no concerns,
\* no recommendations, no dissent}, and on a list of degraded neutral
\* verdicts only it returns a result as well.
C16_TotalWithFixedEmptyResult ==
  /\ pc = "joined" =>
       calculateConsensus(results).finalVerdict \in {"approve", "reject", "concern", "mixed"}
  /\ pc = "done" => consensus # <<>>
  /\ (consensus # <<>> /\ results = <<>>) =>
       consensus[1] =
         [finalVerdict |-> "mixed", confidence |-> <<0>>, agreement |-> <<0>>,
          summary |-> [kind |-> "none", workers |-> 0, agreement |-> <<0>>,
                       verdict |-> "mixed", concerns |-> 0],
          allConcerns |-> <<>>, allRecommendations |-> <<>>, dissenting |-> <<>>]
  /\ (consensus # <<>> /\ OnlyDegraded) =>
       /\ consensus[1].finalVerdict = "mixed"
       /\ ~IsNaN(consensus[1].agreement) /\ ~IsNaN(consensus[1].confidence)
       /\ consensus[1].summary.kind # "none"

\* the consensus of no verdict at all has been computed
C16_Witness ==
  /\ pc = "done" /\ results = <<>> /\ consensus # <<>>
  /\ consensus[1].summary.kind = "none"

\* the places <<worker, index>> of the string s in the workers' lists
PlacesOf(field, s) ==
  UNION {{<<i, j>> : j \in {k \in 1..Len(results[i][field]) : results[i][field][k] = s}} :
           i \in 1..Len(results)}

\* place p comes before place q when the lists are concatenated in input order
ComesBefore(p, q) == p[1] < q[1] \/ (p[1] = q[1] /\ p[2] < q[2])

FirstPlaceOf(field, s) ==
  CHOOSE p \in PlacesOf(field, s) : \A q \in PlacesOf(field, s) : p = q \/ ComesBefore(p, q)

\* list holds every string of the workers' lists exactly once, in the order
\* of first appearance
IsFirstSeenOrder(list, field) ==
  /\ \A a, b \in 1..Len(list) : a # b => list[a] # list[b]
  /\ {list[a] : a \in 1..Len(list)} =
       UNION {{results[i][field][j] : j \in 1..Len(results[i][field])} : i \in 1..Len(results)}
  /\ \A a, b \in 1..Len(list) :
       a < b => ComesBefore(FirstPlaceOf(field, list[a]), FirstPlaceOf(field, list[b]))

\* C17: the aggregated concerns, and likewise the aggregated recommendations,
\* hold every distinct string of any worker's list exactly once, ordered by
\* first appearance in the concatenation of the workers' lists in input order.
C17_AggregatesAreFirstSeenDistinct ==
  consensus # <<>> =>
    /\ IsFirstSeenOrder(consensus[1].allConcerns, "concerns")
    /\ IsFirstSeenOrder(consensus[1].allRecommendations, "recommendations")

\* a string repeated inside one list and across two lists is kept once, at
\* its first place
C17_Witness ==
  /\ consensus # <<>> /\ Len(results) = 2
  /\ results[1].concerns = <<"b", "a", "b">> /\ results[2].concerns = <<"a", "b">>
  /\ results[1].recommendations = <<"r">> /\ results[2].recommendations = <<"q", "r">>
  /\ consensus[1].allConcerns = <<"b", "a">>
  /\ consensus[1].allRecommendations = <<"r", "q">>

\* every verdict of the list handed to calculateConsensus is x
AllVote(x) == results # <<>> /\ \A i \in 1..Len(results) : results[i].verdict = x

\* C18: if all k >= 1 verdicts are the same X in {approve, reject, concern},
\* the final verdict is X, the agreement 100, the confidence the rounded mean
\* of the workers' confidences and nobody dissents (for k = 1 the summary is
\* the single-worker one); if all k verdicts are neutral the final verdict
\* is mixed.
C18_UnanimousInput ==
  consensus # <<>> =>
    /\ \A x \in {"approve", "reject", "concern"} :
         AllVote(x) =>
           /\ consensus[1].finalVerdict = x
           /\ consensus[1].agreement = Num(100)
           /\ ~IsNaN(consensus[1].confidence)
           /\ IsRounded(consensus[1].confidence[1], ConfidenceSum(Len(results)), Len(results))
           /\ consensus[1].dissenting = <<>>
           /\ consensus[1].summary.verdict = x
           /\ consensus[1].summary.kind = IF Len(results) = 1 THEN "single" ELSE "unanimous"
    /\ AllVote("neutral") => consensus[1].finalVerdict = "mixed"

\* one worker, who rejects
C18_Witness ==
  /\ consensus # <<>> /\ Len(results) = 1 /\ AllVote("reject")
  /\ results[1].confidence = 90
  /\ consensus[1].confidence = Num(90)
  /\ consensus[1].summary.kind = "single"

\* prose without braces
ProseToks == {PROSE, VWORD}

\* the bounds <<i, k>> of the objects that make output a text of the shape
\* prose, one well-formed object with a verdict key, prose
WrappedObjects(output) ==
  {b \in (1..Len(output)) \X (1..Len(output)) :
     /\ \A x \in 1..(b[1] - 1) : output[x] \in ProseToks
     /\ \A x \in (b[2] + 1)..Len(output) : output[x] \in ProseToks
     /\ ObjEnd(output, b[1]) = b[2]
     /\ LastMember(SubSeq(output, b[1], b[2]), VerdictToks) # 0}

\* C19: for every raw text made of prose, then one well-formed
\* brace-delimited object with a verdict key, then prose, parseWorkerOutput
\* returns that object's fields rather than none.
C19_FindsVerdictInProse ==
  \A w \in Workers :
    parsedOf[w] # <<>> =>
      \A b \in WrappedObjects(Res(w).output) :
        LET obj == SubSeq(Res(w).output, b[1], b[2])
        IN /\ parsedOf[w][1].ok
           /\ parsedOf[w][1].verdict = VerdictOfTok[obj[LastMember(obj, VerdictToks)]]

\* the decoded object: the bounds of the match when JSON.parse accepts it
DecodedObject(output) ==
  LET m == JsonMatch(output)
  IN IF m # <<0, 0>> /\ ObjEnd(output, m[1]) = m[2]
     THEN <<SubSeq(output, m[1], m[2])>> ELSE <<>>

\* the value token of the object's field with a key in toks, "" when missing
FieldTok(obj, toks) ==
  LET x == LastMember(obj, toks) IN IF x = 0 THEN "" ELSE obj[x]

\* C20: when parseWorkerOutput decodes an object, the confidence is the
\* object's confidence if that is a number and 50 if it is missing or not
\* numeric, the summary is the object's summary or the empty string if
\* missing, concerns and recommendations are the object's lists or empty
\* sequences if they are not lists; when decoding fails it returns none.
C20_FieldDefaults ==
  \A w \in Workers :
    parsedOf[w] # <<>> =>
      LET p == parsedOf[w][1]
          o == DecodedObject(Res(w).output)
      IN /\ p.ok <=> o # <<>>
         /\ ~p.ok => p = NoParse
         /\ p.ok =>
              LET c == FieldTok(o[1], ConfToks)
                  s == FieldTok(o[1], SummaryToks)
                  k == FieldTok(o[1], ConcernToks)
                  r == FieldTok(o[1], RecToks)
              IN /\ p.confidence = (CASE c = "c:90" -> 90 [] c = "c:150" -> 150 [] OTHER -> 50)
                 /\ p.summary = (IF s = "s:ok" THEN <<"ok">> ELSE <<>>)
                 /\ p.concerns = (CASE k = "k:list" -> <<"c1", "c2">>
                                    [] k = "k:brace" -> <<"c}">>
                                    [] OTHER -> <<>>)
                 /\ p.recommendations = (IF r = "r:list" THEN <<"r1">> ELSE <<>>)

\* an object with a string for a confidence, a string for concerns and no
\* summary has been decoded
C20_Witness ==
  \E w \in Workers :
    /\ parsedOf[w] # <<>> /\ parsedOf[w][1].ok
    /\ Res(w).output = <<PROSE, LB, "v:approve", "c:str", "k:str", RB>>
    /\ parsedOf[w][1].confidence = 50
    /\ parsedOf[w][1].concerns = <<>>
    /\ parsedOf[w][1].summary = <<>>

\* the text extractContext formats before it truncates
FormattedText ==
  RenderMessages(SliceLast(session[1].messages,
                           OptionOr(opts.maxMessages, DefaultMaxMessages)))

\* the trailing n characters of the text t
Trailing(t, n) == SubSeq(t, Len(t) - n + 1, Len(t))

\* C21: for every maxChars >= 0 and every session, extractContext returns the
\* formatted text unmodified when its length is <= maxChars; when it is
\* longer the output is the truncation marker followed by the trailing
\* maxChars characters of the formatted text, of total length at most
\* maxChars + the marker's length.
C21_TruncationKeepsTrailingChars ==
  context # <<>> =>
    LET maxChars == OptionOr(opts.maxChars, DefaultMaxChars)
    IN /\ Len(FormattedText) <= maxChars => context[1] = FormattedText
       /\ Len(FormattedText) > maxChars =>
            /\ context[1] = TruncationMarker \o Trailing(FormattedText, maxChars)
            /\ Len(context[1]) <= maxChars + Len(TruncationMarker)

\* the smaller of two naturals
Min2(a, b) == IF a < b THEN a ELSE b

\* C22: for every maxMessages >= 0 the text extractContext formats, before
\* truncation, renders exactly the last min(maxMessages, number of retained
\* messages) messages, oldest first, Human for a user message and Assistant
\* for any other, joined by blank lines.
C22_LastMessagesRendered ==
  (context # <<>> /\ opts.maxChars = <<>>) =>
    LET n == Len(session[1].messages)
        k == Min2(OptionOr(opts.maxMessages, DefaultMaxMessages), n)
    IN context[1] = RenderMessages(SubSeq(session[1].messages, n - k + 1, n))

\* the valid timestamps among the retained records
RetainedTimes ==
  {session[1].messages[i].timestamp[1] :
     i \in {j \in 1..Len(session[1].messages) : session[1].messages[j].timestamp # <<>>}}

\* C23: parseSession sets the start time to the earliest and the end time to
\* the latest valid timestamp among the retained records, whatever the order
\* of the records in the file, and both to the current time when no retained
\* record has a valid timestamp; hence start <= end whenever one is valid.
C23_StartEarliestEndLatest ==
  session # <<>> =>
    /\ RetainedTimes = {} => (session[1].startTime = Now /\ session[1].endTime = Now)
    /\ RetainedTimes # {} =>
         /\ session[1].startTime = Least(RetainedTimes)
         /\ session[1].endTime = Greatest(RetainedTimes)
         /\ session[1].startTime <= session[1].endTime

\* the records the claim C24 retains
IsRetained(l) ==
  /\ l.kind = "record"
  /\ l.type \in {"user", "assistant"}
  /\ l.message
  /\ ~l.isMeta

\* C24: parseSession never aborts on a line that fails to decode: the
\* retained messages are exactly the decodable records, in file order, whose
\* type is user or assistant, that carry a message object and are not
\* flagged meta, however many malformed lines precede, follow or separate
\* them.
C24_MalformedLinesSkipped ==
  session # <<>> => session[1].messages = SelectSeq(lines, IsRetained)

\* a retained record between two lines that fail to decode
C24_Witness ==
  /\ session # <<>> /\ Len(lines) = 3
  /\ lines[1].kind = "malformed" /\ IsRetained(lines[2]) /\ lines[3].kind = "null"
  /\ session[1].messages = <<lines[2]>>

\* the session files of the directory, when the directory and each of them
\* can be read
ReadableSessionFiles ==
  {dir.files[i] : i \in {j \in 1..Len(dir.files) : IsSessionFile(dir.files[j].name)}}

\* a read listSessions makes fails
SomeReadFails ==
  ~dir.readable \/ \E e \in ReadableSessionFiles : ~e.stat

\* C25: listSessions returns the project's session descriptors sorted by
\* last-modified time descending, and the empty sequence, without an error,
\* when the directory does not exist or a read of it fails;
\* getMostRecentSession returns the first element of that list, or none when
\* the list is empty.
C25_SessionsNewestFirst ==
  sessions # <<>> =>
    LET list == sessions[1]
    IN /\ \A i, j \in 1..Len(list) : i < j => list[i].modifiedAt >= list[j].modifiedAt
       /\ (~dir.exists \/ SomeReadFails) => list = <<>>
       /\ (dir.exists /\ ~SomeReadFails) =>
            /\ Len(list) = Cardinality(ReadableSessionFiles)
            /\ {list[i] : i \in 1..Len(list)} =
                 {[id |-> e.name.stem, path |-> e.name, modifiedAt |-> e.mtime] :
                    e \in ReadableSessionFiles}
       /\ sessionArg = <<>> =>
            found = << IF list = <<>> THEN <<>> ELSE <<list[1]>> >>

\* the directory lists the older session first and the command takes the
\* newer one
C25_Witness ==
  /\ sessions # <<>> /\ sessionArg = <<>> /\ Len(sessions[1]) = 2
  /\ Len(dir.files) = 3
  /\ dir.files[1].name.stem = <<"a", "b">> /\ dir.files[1].name.ext = JsonlExt
  /\ dir.files[1].mtime = 1
  /\ found # <<>> /\ found[1] # <<>>
  /\ found[1][1].id = <<"a", "b", "c">> /\ found[1][1].modifiedAt = 2

\* C30: when the session selector is exactly the id of an existing session,
\* that session is the one selected, even when other sessions have ids that
\* start with the same text and were modified more recently; a prefix match
\* is used only when no session has exactly that id.
C30_ExactIdBeforePrefix ==
  (found # <<>> /\ sessionArg # <<>>) =>
    ((\E i \in 1..Len(sessions[1]) : sessions[1][i].id = sessionArg[1]) =>
       (found[1] # <<>> /\ found[1][1].id = sessionArg[1]))

\* the template with the context put in the place of its placeholder
Substituted ==
  LET p == Least({i \in 1..Len(promptTemplate) : promptTemplate[i] = Placeholder})
  IN SubSeq(promptTemplate, 1, p - 1) \o context[1]
     \o SubSeq(promptTemplate, p + 1, Len(promptTemplate))

\* C26: the prompt runWorker passes to the spawned process is the worker's
\* template with its placeholder replaced by the context string verbatim,
\* for every context string, those with dollar-sign sequences or the
\* placeholder text included.
C26_ContextVerbatim ==
  prompt # <<>> => prompt[1] = Substituted

\* C27: whenever the final verdict is approve, reject or concern, the
\* agreement is round(100 * (number of workers whose verdict is the final
\* verdict) / n): the percentage the summary announces as agreement on the
\* final verdict is the share of workers that voted for it.  Stated for the
\* lists whose verdicts are all in the closed set.
C27_AgreementIsShareOfFinalVerdict ==
  (consensus # <<>> /\ results # <<>>
     /\ (\A i \in 1..Len(results) : results[i].verdict \in Verdict)
     /\ consensus[1].finalVerdict \in {"approve", "reject", "concern"}) =>
    /\ consensus[1].agreement =
         Num(RoundDiv(100 * Votes(consensus[1].finalVerdict), Len(results)))
    /\ consensus[1].summary.agreement = consensus[1].agreement

\* the process of worker w has been launched, successfully or not
Spawned(w) == proc[w] # "none"

\* C28: runWorkers returns exactly one verdict per configured worker, the
\* i-th verdict being the one runWorker returned for the i-th config, in
\* parallel and in sequential mode and for every completion order; each
\* config is spawned at most once (no retry after a timeout, a parse failure
\* or a non-zero exit) and its verdict is never replaced.
C28_OneVerdictPerConfigNoRetry ==
  /\ [](pc \in {"joined", "done"} =>
          /\ Len(results) = NumWorkers
          /\ \A i \in Workers : verdictOf[i] # <<>> /\ results[i] = verdictOf[i][1]
          /\ \A i \in Workers : results[i].worker = i)
  /\ [][\A w \in Workers :
          /\ Spawned(w) => proc'[w] # "none"
          /\ proc[w] \in {"dying", "exited", "errored", "closed"} =>
               proc'[w] \notin {"running", "spawnfail"}
          /\ verdictOf[w] # <<>> =>
               (verdictOf'[w] = verdictOf[w] /\ (~Spawned(w) => ~Spawned(w)'))]_vars

\* in parallel mode the first worker timed out and the second succeeded, and
\* the list returned has the stand-in first and the approval second
C28_Witness ==
  /\ pc = "joined" /\ parallel /\ NumWorkers >= 2
  /\ timer[1] = "fired" /\ ~Res(1).success
  /\ Res(2).success /\ timer[2] = "cleared"
  /\ results[1].worker = 1 /\ results[1].verdict = "neutral"
  /\ results[2].worker = 2 /\ results[2].verdict = "approve"

\* C29: for every interleaving of a process's close event, its error event
\* and the timeout timer, the dispatch settles once, with the result of
\* whichever of close or error is observed first; the timer is cancelled at
\* that moment, so the termination signal is sent at most once per dispatch
\* and never after the dispatch has settled.
C29_SettlesOnceTimerCancelled ==
  /\ [](\A w \in Workers :
          /\ (Settled(w) /\ settledBy[w] \in {"close", "error"}) => timer[w] # "armed"
          /\ settledBy[w] = "error" => Res(w).error = Text(SpawnErrorMessage)
          /\ settledBy[w] = "close" => Res(w).error # Text(SpawnErrorMessage)
          /\ sigterm[w] # {} => timer[w] = "fired")
  /\ [][\A w \in Workers :
          /\ Settled(w) => (result'[w] = result[w] /\ settledBy'[w] = settledBy[w])
          /\ (~Settled(w) /\ Settled(w)') => timer'[w] # "armed"
          /\ sigterm'[w] # sigterm[w] =>
               (sigterm[w] = {} /\ ~Settled(w) /\ timer[w] = "armed")
          /\ Settled(w) => timer'[w] = timer[w]]_vars

\* the launch failed: 'error' settled the dispatch and cancelled the timer,
\* the 'close' that followed changed nothing
C29_Witness ==
  \E w \in Workers :
    /\ proc[w] = "closed" /\ settledBy[w] = "error"
    /\ Res(w).error = Text(SpawnErrorMessage)
    /\ timer[w] = "cleared" /\ sigterm[w] = {}

====
